---- MODULE Spec2Model ----
(***************************************************************************)
(* Model of the sargam-v1 cell parser (src/sargam_parser.py):              *)
(* parse_music_cell, the line loop, and parse_token, the token decoder.    *)
(*                                                                         *)
(* A Python str is a sequence of one-character strings, so that strip,     *)
(* split, startswith, lower, the regular expressions and float() are       *)
(* computed character by character as the code computes them.              *)
(* Optional[T] is a sequence of length 0 (None) or 1.                      *)
(* A float is a decimal num / 10^exp in canonical form (no trailing zero   *)
(* in the fraction), so equal numbers are equal records.                   *)
(***************************************************************************)
EXTENDS Integers, Sequences, FiniteSets, TLC

\* ------------------------------------------------------------------------
\* Bounds of the explored inputs
\* ------------------------------------------------------------------------
MaxLines == 3
MaxTokLen == 3

\* ------------------------------------------------------------------------
\* Python values
\* ------------------------------------------------------------------------
None == <<>>
Some(x) == <<x>>
IsNone(o) == o = <<>>
Get(o) == o[1]

Float(n, e) == [num |-> n, exp |-> e]

UpperLetters ==
  <<"A","B","C","D","E","F","G","H","I","J","K","L","M",
    "N","O","P","Q","R","S","T","U","V","W","X","Y","Z">>
LowerLetters ==
  <<"a","b","c","d","e","f","g","h","i","j","k","l","m",
    "n","o","p","q","r","s","t","u","v","w","x","y","z">>
DigitChars == <<"0","1","2","3","4","5","6","7","8","9">>

Range(s) == {s[i] : i \in 1..Len(s)}
IsUpper(c) == c \in Range(UpperLetters)
IsLower(c) == c \in Range(LowerLetters)
IsLetter(c) == IsUpper(c) \/ IsLower(c)
IsDigit(c) == c \in Range(DigitChars)
IsSpace(c) == c \in {" ", "\t", "\n", "\r"}
DigitVal(c) == (CHOOSE i \in 1..10 : DigitChars[i] = c) - 1

\* str.lower()
LowerChar(c) ==
  IF IsUpper(c) THEN LowerLetters[CHOOSE i \in 1..26 : UpperLetters[i] = c] ELSE c
Lower(s) == [i \in 1..Len(s) |-> LowerChar(s[i])]

\* least element of a set of positions, 0 when there is none
MinPos(S) == IF S = {} THEN 0 ELSE CHOOSE i \in S : \A j \in S : i <= j
MaxPos(S) == IF S = {} THEN 0 ELSE CHOOSE i \in S : \A j \in S : i >= j

\* s[:i-1] and s[i+1:] around the 1-based position i
Before(s, i) == SubSeq(s, 1, i - 1)
After(s, i) == SubSeq(s, i + 1, Len(s))

\* str.find(c) + 1 and str.rfind(c) + 1
Find(s, c) == MinPos({i \in 1..Len(s) : s[i] = c})
RFind(s, c) == MaxPos({i \in 1..Len(s) : s[i] = c})

\* str.startswith(p)
StartsWith(s, p) == Len(s) >= Len(p) /\ SubSeq(s, 1, Len(p)) = p

RECURSIVE LStrip(_, _)
LStrip(s, cs) == IF s # <<>> /\ Head(s) \in cs THEN LStrip(Tail(s), cs) ELSE s
RECURSIVE RStrip(_, _)
RStrip(s, cs) ==
  IF s # <<>> /\ s[Len(s)] \in cs THEN RStrip(SubSeq(s, 1, Len(s) - 1), cs) ELSE s
\* str.strip(chars)
StripChars(s, cs) == RStrip(LStrip(s, cs), cs)
WhiteSpace == {" ", "\t", "\n", "\r"}
\* str.strip()
Strip(s) == StripChars(s, WhiteSpace)

\* length of the leading run of non-whitespace characters
WordLen(t) ==
  LET p == MinPos({i \in 1..Len(t) : IsSpace(t[i])})
  IN  IF p = 0 THEN Len(t) ELSE p - 1

\* str.split(): split on runs of whitespace, no empty words
RECURSIVE Split(_)
Split(s) ==
  LET t == LStrip(s, WhiteSpace)
  IN  IF t = <<>> THEN <<>>
      ELSE <<SubSeq(t, 1, WordLen(t))>> \o Split(SubSeq(t, WordLen(t) + 1, Len(t)))

\* str.split(maxsplit=1): the first word, then the remainder with its
\* leading whitespace skipped and its trailing whitespace kept
SplitMax1(s) ==
  LET t == LStrip(s, WhiteSpace)
      r == LStrip(SubSeq(t, WordLen(t) + 1, Len(t)), WhiteSpace)
  IN  IF t = <<>> THEN <<>>
      ELSE IF r = <<>> THEN <<SubSeq(t, 1, WordLen(t))>>
      ELSE <<SubSeq(t, 1, WordLen(t)), r>>

\* str.split(c): the pieces between occurrences of c, empty pieces included
RECURSIVE SplitOn(_, _)
SplitOn(s, c) ==
  IF Find(s, c) = 0 THEN <<s>>
  ELSE <<Before(s, Find(s, c))>> \o SplitOn(After(s, Find(s, c)), c)

RECURSIVE ToInt(_)
ToInt(ds) ==
  IF ds = <<>> THEN 0 ELSE 10 * ToInt(SubSeq(ds, 1, Len(ds) - 1)) + DigitVal(ds[Len(ds)])

AllDigits(s) == \A i \in 1..Len(s) : IsDigit(s[i])

\* float(s) for decimal literals without exponent: optional surrounding
\* whitespace, optional sign, digits with single underscores between digits,
\* optional point; at least one digit.  None stands for ValueError.
ParseFloat(s) ==
  LET t == Strip(s)
      signed == t # <<>> /\ Head(t) \in {"+", "-"}
      sign == IF signed /\ Head(t) = "-" THEN -1 ELSE 1
      u == IF signed THEN Tail(t) ELSE t
      underscoresOk ==
        \A i \in 1..Len(u) :
          u[i] = "_" => /\ i > 1 /\ i < Len(u)
                        /\ IsDigit(u[i - 1]) /\ IsDigit(u[i + 1])
      b == SelectSeq(u, LAMBDA c : c # "_")
      dot == Find(b, ".")
      ip == IF dot = 0 THEN b ELSE Before(b, dot)
      fp == IF dot = 0 THEN <<>> ELSE After(b, dot)
      f == RStrip(fp, {"0"})
  IN  IF /\ underscoresOk /\ AllDigits(ip) /\ AllDigits(fp)
         /\ Len(ip) + Len(fp) >= 1
      THEN Some(Float(sign * ToInt(ip \o f), Len(f)))
      ELSE None

\* ------------------------------------------------------------------------
\* Events (dataclasses of sargam_parser.py)
\* ------------------------------------------------------------------------
Ornament(name, params) == [name |-> name, params |-> params]

NoteEvent(swara, octave, variant, microtone, duration, line_index, ornaments, lyric) ==
  [type |-> "note", swara |-> swara, octave |-> octave, variant |-> variant,
   microtone |-> microtone, duration |-> duration, line_index |-> line_index,
   ornaments |-> ornaments, lyric |-> lyric]
RestEvent(duration, line_index) ==
  [type |-> "rest", duration |-> duration, line_index |-> line_index]
HoldEvent(duration, line_index) ==
  [type |-> "hold", duration |-> duration, line_index |-> line_index]
BarEvent(double, line_index) ==
  [type |-> "bar", double |-> double, line_index |-> line_index]

Voice(name) == [name |-> name, events |-> <<>>]

\* ------------------------------------------------------------------------
\* parse_token
\* ------------------------------------------------------------------------

\* _swara_re.match(s), r"^[A-Za-z]+$" ('$' also matches before a final newline)
IsSwaraName(s) ==
  LET t == IF s # <<>> /\ s[Len(s)] = "\n" THEN SubSeq(s, 1, Len(s) - 1) ELSE s
  IN  t # <<>> /\ \A i \in 1..Len(t) : IsLetter(t[i])

\* _microtone_re.fullmatch(s): n, a sign, digits with an optional fraction,
\* the unit c or st.  None when s does not match, else (sign * value, unit).
MicrotoneDigits(v) ==
  LET dot == Find(v, ".")
  IN  IF dot = 0 THEN v # <<>> /\ AllDigits(v)
      ELSE /\ Before(v, dot) # <<>> /\ AllDigits(Before(v, dot))
           /\ After(v, dot) # <<>> /\ AllDigits(After(v, dot))
MicrotoneMatch(s) ==
  LET n == Len(s)
      unit == IF n >= 2 /\ SubSeq(s, n - 1, n) = <<"s", "t">> THEN <<"s", "t">>
              ELSE IF n >= 1 /\ s[n] = "c" THEN <<"c">>
              ELSE <<>>
      value == SubSeq(s, 3, n - Len(unit))
      sign == IF s[2] = "+" THEN 1 ELSE -1
  IN  IF /\ n >= 3 /\ s[1] = "n" /\ s[2] \in {"+", "-"}
         /\ unit # <<>> /\ MicrotoneDigits(value)
      THEN Some([value |-> Float(sign * Get(ParseFloat(value)).num,
                                 Get(ParseFloat(value)).exp),
                 unit |-> unit])
      ELSE None

\* re.search(r"(?<!n)\+", note_part): the first '+' not preceded by 'n'
OrnamentPlus(note_part) ==
  MinPos({i \in 1..Len(note_part) :
            note_part[i] = "+" /\ (i = 1 \/ note_part[i - 1] # "n")})

\* fault: the k and t tags are not taken for modifiers
ModifierStart_NoTag(note_part) ==
  MinPos({i \in 1..Len(note_part) :
     \/ note_part[i] \in {"'", ",", "#", "b"}
     \/ /\ note_part[i] = "n"
        /\ i < Len(note_part) /\ note_part[i + 1] \in {"+", "-"}})

\* re.search(r"[',#b]|n[+-]|[kt](?![a-z])", note_part): the first position
\* where a modifier starts
ModifierStart(note_part) ==
  MinPos({i \in 1..Len(note_part) :
     \/ note_part[i] \in {"'", ",", "#", "b"}
     \/ /\ note_part[i] = "n"
        /\ i < Len(note_part) /\ note_part[i + 1] \in {"+", "-"}
     \/ /\ note_part[i] \in {"k", "t"}
        /\ ~(i < Len(note_part) /\ IsLower(note_part[i + 1]))})

\* lines 266-272 and 276-282: swara and modifier text of an ordinary note
SplitSwara(note_part) ==
  IF ModifierStart(note_part) # 0
  THEN [swara |-> Before(note_part, ModifierStart(note_part)),
        mods_part |-> SubSeq(note_part, ModifierStart(note_part), Len(note_part)),
        is_lowercase_komal |-> FALSE]
  ELSE [swara |-> note_part, mods_part |-> <<>>, is_lowercase_komal |-> FALSE]

komal_map(c) ==
  CASE c = "r" -> "R" [] c = "g" -> "G" [] c = "d" -> "D" [] c = "n" -> "N"

\* re.match(r"^([rgdn])(.*)$", note_part): '.' matches no newline, '$' matches
\* at the end and before a final newline
KomalMatch(note_part) ==
  /\ note_part # <<>> /\ Head(note_part) \in {"r", "g", "d", "n"}
  /\ \A i \in 2..Len(note_part) : note_part[i] = "\n" => i = Len(note_part)

\* lines 252-282
SwaraAndMods(note_part) ==
  IF note_part # <<>> /\ Head(note_part) \in {"r", "g", "d", "n"}
  THEN IF KomalMatch(note_part)
       THEN [swara |-> <<komal_map(Head(note_part))>>,
             mods_part |-> RStrip(Tail(note_part), {"\n"}),
             is_lowercase_komal |-> TRUE]
       ELSE SplitSwara(note_part)
  ELSE SplitSwara(note_part)

Count(s, c) == Cardinality({i \in 1..Len(s) : s[i] = c})

\* lines 284-290
Octave(mods_part) == Count(mods_part, "'") - Count(mods_part, ",")

\* line 293
RemainingMods(mods_part) == SelectSeq(mods_part, LAMBDA c : c \notin {"'", ","})

\* fault: a microtone does not clear the variant of an ordinary note
VariantMicrotone_KeepsVariant(is_lowercase_komal, remaining_mods) ==
  IF is_lowercase_komal
  THEN [variant |-> Some(<<"k">>),
        microtone |-> IF remaining_mods # <<>> THEN MicrotoneMatch(remaining_mods)
                      ELSE None]
  ELSE IF remaining_mods # <<>>
       THEN [variant |-> Some(remaining_mods),
             microtone |-> MicrotoneMatch(remaining_mods)]
       ELSE [variant |-> None, microtone |-> None]

\* lines 295-322: (variant, microtone)
VariantMicrotone(is_lowercase_komal, remaining_mods) ==
  IF is_lowercase_komal
  THEN IF remaining_mods # <<>> /\ ~IsNone(MicrotoneMatch(remaining_mods))
       THEN [variant |-> Some(<<"k">>), microtone |-> MicrotoneMatch(remaining_mods)]
       ELSE [variant |-> Some(<<"k">>), microtone |-> None]
  ELSE IF remaining_mods # <<>>
       THEN IF ~IsNone(MicrotoneMatch(remaining_mods))
            THEN [variant |-> None, microtone |-> MicrotoneMatch(remaining_mods)]
            ELSE [variant |-> Some(remaining_mods), microtone |-> None]
       ELSE [variant |-> None, microtone |-> None]

\* re.match(r"([A-Za-z_]+)(\((.*?)\))?$", part), lines 334-343
OrnamentOf(part) ==
  LET stop == MinPos({i \in 1..Len(part) : ~(IsLetter(part[i]) \/ part[i] = "_")})
      n == IF stop = 0 THEN Len(part) ELSE stop - 1
      rest == SubSeq(part, n + 1, Len(part))
      params_str == SubSeq(rest, 2, Len(rest) - 1)
      pieces == SplitOn(params_str, ",")
      stripped == [i \in 1..Len(pieces) |-> Strip(pieces[i])]
  IN  IF n >= 1 /\ rest = <<>>
      THEN Ornament(part, <<>>)
      ELSE IF /\ n >= 1 /\ Len(rest) >= 2
              /\ rest[1] = "(" /\ rest[Len(rest)] = ")"
              /\ "\n" \notin Range(params_str)
      THEN Ornament(SubSeq(part, 1, n),
                    IF params_str # <<>>
                    THEN SelectSeq(stripped, LAMBDA q : q # <<>>)
                    ELSE <<>>)
      ELSE Ornament(part, <<>>)

\* lines 328-343
Ornaments(ornaments_part) ==
  IF IsNone(ornaments_part) \/ Get(ornaments_part) = <<>>
  THEN <<>>
  ELSE LET parts == SplitOn(Get(ornaments_part), ",")
           stripped == [i \in 1..Len(parts) |-> Strip(parts[i])]
           kept == SelectSeq(stripped, LAMBDA q : q # <<>>)
       IN  [i \in 1..Len(kept) |-> OrnamentOf(kept[i])]

\* lines 203-217
RestOrHold(token, default_duration, line_index) ==
  LET symbol == Head(token)
      remainder == IF Tail(token) # <<>> /\ Head(Tail(token)) = ":"
                   THEN Tail(Tail(token)) ELSE Tail(token)
      duration == IF remainder # <<>> THEN ParseFloat(remainder)
                  ELSE Some(default_duration)
  IN  IF IsNone(duration) THEN None
      ELSE IF symbol = "_" THEN Some(RestEvent(Get(duration), line_index))
      ELSE Some(HoldEvent(Get(duration), line_index))

\* lines 220-226: (note_part, lyric)
SplitLyric(token) ==
  IF Find(token, "=") # 0
  THEN [note_part |-> Before(token, Find(token, "=")),
        lyric |-> Some(StripChars(After(token, Find(token, "=")), {"\""}))]
  ELSE [note_part |-> token, lyric |-> None]

\* lines 229-238: (note_part, ornaments_part)
SplitOrnaments(note_part) ==
  IF OrnamentPlus(note_part) # 0
  THEN [note_part |-> Before(note_part, OrnamentPlus(note_part)),
        ornaments_part |-> Some(After(note_part, OrnamentPlus(note_part)))]
  ELSE [note_part |-> note_part, ornaments_part |-> None]

\* lines 241-250: (note_part, duration)
SplitDuration(note_part) ==
  IF /\ RFind(note_part, ":") # 0
     /\ ~IsNone(ParseFloat(After(note_part, RFind(note_part, ":"))))
  THEN [note_part |-> Before(note_part, RFind(note_part, ":")),
        duration |-> ParseFloat(After(note_part, RFind(note_part, ":")))]
  ELSE [note_part |-> note_part, duration |-> None]

\* lines 219-354
NoteToken(token, default_duration, line_index) ==
  LET l == SplitLyric(token)
      o == SplitOrnaments(l.note_part)
      d == SplitDuration(o.note_part)
      sm == SwaraAndMods(d.note_part)
      vm == VariantMicrotone(sm.is_lowercase_komal, RemainingMods(sm.mods_part))
  IN  Some(NoteEvent(sm.swara, Octave(sm.mods_part), vm.variant, vm.microtone,
                     IF IsNone(d.duration) THEN default_duration ELSE Get(d.duration),
                     line_index, Ornaments(o.ornaments_part), l.lyric))

\* parse_token(token, default_duration, line_index): None or the event
parse_token(token, default_duration, line_index) ==
  IF token = <<"|">> THEN Some(BarEvent(FALSE, line_index))
  ELSE IF token = <<"|", "|">> THEN Some(BarEvent(TRUE, line_index))
  ELSE IF token # <<>> /\ Head(token) \in {"_", "."}
       THEN RestOrHold(token, default_duration, line_index)
  ELSE NoteToken(token, default_duration, line_index)

\* ------------------------------------------------------------------------
\* Inputs: every cell of at most MaxLines lines drawn from LineSet, and every
\* one-line cell holding one token of at most MaxTokLen characters of TokChars
\* ------------------------------------------------------------------------
\*   LineWhitespaceOnly     ' \n'
\*   LineBareAt             '@'
\*   LineSetDuration2       '@default_duration 2'
\*   LineSetDurationUpper0  '@Default_Duration 0'
\*   LineSetDurationBad     '@default_duration x'
\*   LineVoiceA             '#Voice a'
\*   LineVoiceUnnamed       '#voice'
\*   LineNotesDoubleBar     'S || r Rk'
\*   LineRestKomalMicrotone '_ rn+3c Rn+3c'
\*   LineCommentOnly        '# c'
\*   LineUnrecognised       "'S 0 _x"
\*   LineEscapedHash        'M\\# R'
LineWhitespaceOnly == <<" ", "\n">>
LineBareAt == <<"@">>
LineSetDuration2 == <<"@", "d", "e", "f", "a", "u", "l", "t", "_", "d", "u", "r", "a", "t", "i", "o", "n", " ", "2">>
LineSetDurationUpper0 == <<"@", "D", "e", "f", "a", "u", "l", "t", "_", "D", "u", "r", "a", "t", "i", "o", "n", " ", "0">>
LineSetDurationBad == <<"@", "d", "e", "f", "a", "u", "l", "t", "_", "d", "u", "r", "a", "t", "i", "o", "n", " ", "x">>
LineVoiceA == <<"#", "V", "o", "i", "c", "e", " ", "a">>
LineVoiceUnnamed == <<"#", "v", "o", "i", "c", "e">>
LineNotesDoubleBar == <<"S", " ", "|", "|", " ", "r", " ", "R", "k">>
LineRestKomalMicrotone == <<"_", " ", "r", "n", "+", "3", "c", " ", "R", "n", "+", "3", "c">>
LineCommentOnly == <<"#", " ", "c">>
LineUnrecognised == <<"'", "S", " ", "0", " ", "_", "x">>
LineEscapedHash == <<"M", "\\", "#", " ", "R">>

LineSet ==
  {LineWhitespaceOnly, LineBareAt, LineSetDuration2, LineSetDurationUpper0, LineSetDurationBad, LineVoiceA, LineVoiceUnnamed, LineNotesDoubleBar, LineRestKomalMicrotone, LineCommentOnly, LineUnrecognised,
   LineEscapedHash}

TokChars ==
  {"S", "R", "r", "n", "k", "'", ":", "0", "1", "-", "+", "_", ".", "|"}

SeqsUpTo(S, n) == UNION {[1..k -> S] : k \in 0..n}

CellInputs == SeqsUpTo(LineSet, MaxLines)
TokenInputs == {<<t>> : t \in SeqsUpTo(TokChars, MaxTokLen) \ {<<>>}}

\* ------------------------------------------------------------------------
\* parse_music_cell
\* ------------------------------------------------------------------------
VARIABLES
  lines,               \* the argument of parse_music_cell
  idx,                 \* enumerate() position of the next physical line, from 0
  pc,                  \* "loop", "tokens" (inside the for-token loop), "done", "raised"
  tokens,              \* tokens of the current note line still to decode
  directives,          \* dict, as its items in insertion order
  voices,              \* dict name -> Voice, as its values in insertion order
  current_voice,       \* None or the name of the active Voice
  logical_line_index,
  default_duration,
  calls                \* the parse_token calls made so far, in order, with their results

vars == <<lines, idx, pc, tokens, directives, voices, current_voice,
          logical_line_index, default_duration, calls>>

default_duration_key ==
  <<"d","e","f","a","u","l","t","_","d","u","r","a","t","i","o","n">>
voice_marker == <<"#","v","o","i","c","e">>
default_name == <<"d","e","f","a","u","l","t">>

\* line 147 and the physical line at position i (from 0)
LineAt(ls, i) == StripChars(ls[i + 1], {"\n"})
\* line 148
IsBlank(line) == Strip(line) = <<>>

\* fault: the first physical line advances the counter too
LineStart_Always(i, li) == li + 1

\* lines 152-153
LineStart(i, li) == IF i > 0 THEN li + 1 ELSE li

\* d[k] = v on an insertion-ordered dict
DictSet(d, k, v) ==
  IF \E i \in 1..Len(d) : d[i].key = k
  THEN [i \in 1..Len(d) |-> IF d[i].key = k THEN [key |-> k, value |-> v] ELSE d[i]]
  ELSE Append(d, [key |-> k, value |-> v])

\* fault: the key is compared without lower-casing it
IsDefaultDurationKey_CaseSensitive(key) == key = default_duration_key

\* line 158
IsDefaultDurationKey(key) == Lower(key) = default_duration_key

\* lines 159-162
DirectiveDuration(value) ==
  IF IsNone(ParseFloat(value)) THEN Float(1, 0) ELSE Get(ParseFloat(value))

\* line 164
IsVoiceLine(line) == StartsWith(Lower(line), voice_marker)

\* lines 165-169
VoiceName(line) ==
  IF Len(Split(line)) >= 2 THEN Split(line)[2] ELSE default_name

\* fault: a voice referred to again is replaced by a new one at the end
SetDefault_Reinsert(vs, name) ==
  Append(SelectSeq(vs, LAMBDA v : v.name # name), Voice(name))

\* voices.setdefault(name, Voice(name=name)), lines 170 and 174
SetDefault(vs, name) ==
  IF \E i \in 1..Len(vs) : vs[i].name = name THEN vs ELSE Append(vs, Voice(name))

\* lines 176-179
StripComment(line) ==
  IF Find(line, "#") # 0 THEN Before(line, Find(line, "#")) ELSE line

\* line 180
Tokenize(line) == SelectSeq(Split(Strip(StripComment(line))), LAMBDA tok : tok # <<>>)

\* fault: the event is put in front of the voice's events
AppendEvent_Front(vs, name, event) ==
  [i \in 1..Len(vs) |->
     IF vs[i].name = name THEN [vs[i] EXCEPT !.events = <<event>> \o @] ELSE vs[i]]

\* line 184: current_voice.events.append(event)
AppendEvent(vs, name, event) ==
  [i \in 1..Len(vs) |->
     IF vs[i].name = name THEN [vs[i] EXCEPT !.events = Append(@, event)] ELSE vs[i]]

\* fault: a double bar does not advance the counter
AfterEvent_NoIncrement(li, event) == li

\* lines 186-187
AfterEvent(li, event) ==
  IF event.type = "bar" /\ event.double THEN li + 1 ELSE li

Init ==
  /\ lines \in CellInputs \cup TokenInputs
  /\ idx = 0
  /\ pc = "loop"
  /\ tokens = <<>>
  /\ directives = <<>>
  /\ voices = <<>>
  /\ current_voice = None
  /\ logical_line_index = 0
  /\ default_duration = Float(1, 0)
  /\ calls = <<>>

\* lines 146-149: a blank physical line is skipped
BlankLine ==
  /\ pc = "loop" /\ idx < Len(lines)
  /\ IsBlank(LineAt(lines, idx))
  /\ idx' = idx + 1
  /\ UNCHANGED <<lines, pc, tokens, directives, voices, current_voice,
                 logical_line_index, default_duration, calls>>

\* lines 152-163: a directive line; the unpacking of line 155 raises
\* ValueError when nothing follows the '@'
DirectiveLine ==
  /\ pc = "loop" /\ idx < Len(lines)
  /\ ~IsBlank(LineAt(lines, idx))
  /\ StartsWith(LineAt(lines, idx), <<"@">>)
  /\ logical_line_index' = LineStart(idx, logical_line_index)
  /\ LET parts == SplitMax1(Tail(LineAt(lines, idx)))
         key == parts[1]
         value == IF Len(parts) >= 2 THEN parts[2] ELSE <<>>
     IN  IF parts = <<>>
         THEN /\ pc' = "raised"
              /\ UNCHANGED <<idx, directives, default_duration>>
         ELSE /\ directives' = DictSet(directives, Lower(key), value)
              /\ default_duration' = IF IsDefaultDurationKey(key)
                                     THEN DirectiveDuration(value)
                                     ELSE default_duration
              /\ idx' = idx + 1
              /\ pc' = pc
  /\ UNCHANGED <<lines, tokens, voices, current_voice, calls>>

\* lines 152-153, 164-171: a voice-switch line
VoiceLine ==
  /\ pc = "loop" /\ idx < Len(lines)
  /\ ~IsBlank(LineAt(lines, idx))
  /\ ~StartsWith(LineAt(lines, idx), <<"@">>)
  /\ IsVoiceLine(LineAt(lines, idx))
  /\ logical_line_index' = LineStart(idx, logical_line_index)
  /\ voices' = SetDefault(voices, VoiceName(LineAt(lines, idx)))
  /\ current_voice' = Some(VoiceName(LineAt(lines, idx)))
  /\ idx' = idx + 1
  /\ UNCHANGED <<lines, pc, tokens, directives, default_duration, calls>>

\* lines 152-153, 172-180: a note line, up to its token list
NoteLine ==
  /\ pc = "loop" /\ idx < Len(lines)
  /\ ~IsBlank(LineAt(lines, idx))
  /\ ~StartsWith(LineAt(lines, idx), <<"@">>)
  /\ ~IsVoiceLine(LineAt(lines, idx))
  /\ logical_line_index' = LineStart(idx, logical_line_index)
  /\ IF IsNone(current_voice)
     THEN /\ voices' = SetDefault(voices, default_name)
          /\ current_voice' = Some(default_name)
     ELSE UNCHANGED <<voices, current_voice>>
  /\ tokens' = Tokenize(LineAt(lines, idx))
  /\ IF tokens' = <<>>
     THEN idx' = idx + 1 /\ pc' = "loop"
     ELSE idx' = idx /\ pc' = "tokens"
  /\ UNCHANGED <<lines, directives, default_duration, calls>>

\* lines 181-187: one iteration of the token loop
Token ==
  /\ pc = "tokens"
  /\ LET event == parse_token(Head(tokens), default_duration, logical_line_index)
     IN  /\ calls' = Append(calls, [token |-> Head(tokens),
                                    default_duration |-> default_duration,
                                    line_index |-> logical_line_index,
                                    idx |-> idx,
                                    voice |-> Get(current_voice),
                                    result |-> event])
         /\ IF IsNone(event)
            THEN UNCHANGED <<voices, logical_line_index>>
            ELSE /\ voices' = AppendEvent(voices, Get(current_voice), Get(event))
                 /\ logical_line_index' = AfterEvent(logical_line_index, Get(event))
  /\ tokens' = Tail(tokens)
  /\ IF tokens' = <<>>
     THEN idx' = idx + 1 /\ pc' = "loop"
     ELSE idx' = idx /\ pc' = "tokens"
  /\ UNCHANGED <<lines, directives, current_voice, default_duration>>

\* line 188
Return ==
  /\ pc = "loop" /\ idx = Len(lines)
  /\ pc' = "done"
  /\ UNCHANGED <<lines, idx, tokens, directives, voices, current_voice,
                 logical_line_index, default_duration, calls>>

Next == BlankLine \/ DirectiveLine \/ VoiceLine \/ NoteLine \/ Token \/ Return

Spec == Init /\ [][Next]_vars

\* ------------------------------------------------------------------------
\* Properties
\* ------------------------------------------------------------------------
NCalls == Len(calls)
IsEvent(r) == ~IsNone(r)
IsNote(r) == IsEvent(r) /\ Get(r).type = "note"
IsDoubleBar(r) == IsEvent(r) /\ Get(r).type = "bar" /\ Get(r).double
HasDuration(r) == IsEvent(r) /\ Get(r).type \in {"note", "rest", "hold"}
\* the calls that produced an event, in emission order
Emitted == SelectSeq(calls, LAMBDA c : IsEvent(c.result))
\* every event held by some voice
StoredEvents == UNION {Range(voices[v].events) : v \in 1..Len(voices)}

StartsKomal(token) == token # <<>> /\ Head(token) \in {"r", "g", "d", "n"}
IsBarRestHold(token) ==
  \/ token \in {<<"|">>, <<"|", "|">>}
  \/ token # <<>> /\ Head(token) \in {"_", "."}
\* the text in which parse_token looks for the swara: the token without its
\* lyric, ornaments and duration
NotePart(token) ==
  SplitDuration(SplitOrnaments(SplitLyric(token).note_part).note_part).note_part

\* C1 (as claimed): parse_music_cell returns a MusicCell without raising for
\* every sequence of strings, directive lines such as a bare "@" included,
\* and every parse_token call it makes returns.
C1_NeverRaises == pc # "raised"

\* C2 (as claimed): no token decodes to a note that has both a variant and a
\* microtone, tokens starting with a lower-case komal letter included.
C2_VariantMicrotoneExclusive ==
  \A i \in 1..NCalls :
    IsNote(calls[i].result) =>
      ~(~IsNone(Get(calls[i].result).variant) /\ ~IsNone(Get(calls[i].result).microtone))

\* C2 (amended): a note decoded from a token that does not start with a
\* lower-case komal letter r, g, d, n never has both a variant and a
\* microtone; a note decoded from a token that starts with one always has
\* variant "k", also when it has a microtone.
C2_ExclusiveUnlessKomal ==
  \A i \in 1..NCalls :
    IsNote(calls[i].result) =>
      LET e == Get(calls[i].result)
      IN  IF StartsKomal(calls[i].token)
          THEN e.variant = Some(<<"k">>)
          ELSE IsNone(e.variant) \/ IsNone(e.microtone)

\* a plain note with a microtone and no variant, and a komal note with a
\* microtone and its variant "k", have both been decoded
C2_Witness ==
  /\ \E i \in 1..NCalls :
       /\ IsNote(calls[i].result) /\ ~StartsKomal(calls[i].token)
       /\ ~IsNone(Get(calls[i].result).microtone)
       /\ IsNone(Get(calls[i].result).variant)
  /\ \E i \in 1..NCalls :
       /\ IsNote(calls[i].result) /\ StartsKomal(calls[i].token)
       /\ ~IsNone(Get(calls[i].result).microtone)
       /\ Get(calls[i].result).variant = Some(<<"k">>)

\* C3 (as claimed): a token that is not a bar, rest or hold and whose swara
\* is not a swara name (_swara_re) decodes to None, and no voice holds a note
\* with such a swara.
C3_UnrecognisedDropped ==
  /\ \A i \in 1..NCalls :
       (/\ ~IsBarRestHold(calls[i].token)
        /\ ~IsSwaraName(SwaraAndMods(NotePart(calls[i].token)).swara))
       => IsNone(calls[i].result)
  /\ \A e \in StoredEvents : e.type = "note" => IsSwaraName(e.swara)

\* C4: the line_index values of the emitted events never decrease in emission
\* order; a double bar carries the counter value of the moment it was decoded,
\* the counter is greater after it, and every event emitted after a double
\* bar has a greater line_index than that double bar.
C4_LineIndexMonotone ==
  /\ \A i, j \in 1..Len(Emitted) :
       i < j => Get(Emitted[i].result).line_index <= Get(Emitted[j].result).line_index
  /\ \A i \in 1..NCalls :
       IsDoubleBar(calls[i].result) =>
         /\ Get(calls[i].result).line_index = calls[i].line_index
         /\ logical_line_index > calls[i].line_index
         /\ \A j \in (i + 1)..NCalls :
              IsEvent(calls[j].result) =>
                Get(calls[j].result).line_index > Get(calls[i].result).line_index

\* a double bar was emitted and followed, on the same physical line, by
\* another event whose line_index is greater
C4_Witness ==
  \E i, j \in 1..NCalls :
    /\ i < j /\ IsDoubleBar(calls[i].result) /\ IsEvent(calls[j].result)
    /\ calls[i].idx = calls[j].idx
    /\ Get(calls[j].result).line_index = Get(calls[i].result).line_index + 1

\* C5 (as claimed): every note, rest and hold held by a voice has a strictly
\* positive duration, whether the duration came from the token or from an
\* @default_duration directive.
C5_PositiveDurations ==
  \A e \in StoredEvents :
    e.type \in {"note", "rest", "hold"} => e.duration.num > 0

UpperChar(c) ==
  IF IsLower(c) THEN UpperLetters[CHOOSE i \in 1..26 : LowerLetters[i] = c] ELSE c
KomalLetters == {"r", "g", "d", "n"}
\* the note both spellings of a komal swara stand for
KomalNote(x, duration, line_index) ==
  Some(NoteEvent(<<UpperChar(x)>>, 0, Some(<<"k">>), None, duration, line_index,
                 <<>>, None))

\* C6: for x in r, g, d, n the tokens x and Xk decode, under the same default
\* duration and line index, to the same note in every field: swara X, octave
\* 0, variant "k", no microtone, the default duration, no ornaments, no lyric.
\* Checked on the default duration and line index of every token-loop state
\* and on every call the parse made with one of these tokens.
C6_KomalEquivalence ==
  /\ pc = "tokens" =>
       (\A x \in KomalLetters :
          /\ parse_token(<<x>>, default_duration, logical_line_index)
               = KomalNote(x, default_duration, logical_line_index)
          /\ parse_token(<<UpperChar(x), "k">>, default_duration, logical_line_index)
               = KomalNote(x, default_duration, logical_line_index))
  /\ \A i \in 1..NCalls : \A x \in KomalLetters :
       calls[i].token \in {<<x>>, <<UpperChar(x), "k">>}
         => calls[i].result = KomalNote(x, calls[i].default_duration, calls[i].line_index)

\* r and Rk were decoded under the same changed default duration and the same
\* line index, and gave the same note
C6_Witness ==
  \E i, j \in 1..NCalls :
    /\ calls[i].token = <<"r">> /\ calls[j].token = <<"R", "k">>
    /\ calls[i].default_duration = Float(2, 0)
    /\ calls[i].line_index = calls[j].line_index
    /\ IsNote(calls[i].result)
    /\ calls[i].result = calls[j].result

\* the voice names the first n physical lines refer to, in order: the name
\* of each #voice line, and "default" for a note line met while no voice is
\* active
RECURSIVE RefSeq(_, _)
RefSeq(ls, n) ==
  IF n = 0 THEN <<>>
  ELSE LET prev == RefSeq(ls, n - 1)
           line == LineAt(ls, n - 1)
       IN  IF IsBlank(line) \/ StartsWith(line, <<"@">>) THEN prev
           ELSE IF IsVoiceLine(line) THEN Append(prev, VoiceName(line))
           ELSE IF prev = <<>> THEN <<default_name>>
           ELSE prev
\* a sequence without the repetitions of its elements
RECURSIVE FirstOccurrences(_)
FirstOccurrences(s) ==
  IF s = <<>> THEN <<>>
  ELSE LET init == FirstOccurrences(SubSeq(s, 1, Len(s) - 1))
       IN  IF s[Len(s)] \in Range(init) THEN init ELSE Append(init, s[Len(s)])
\* the number of physical lines classified so far
LinesSeen == IF pc = "tokens" THEN idx + 1 ELSE idx
VoiceNames == [k \in 1..Len(voices) |-> voices[k].name]
\* the events decoded for the voice name, in the order of their decoding
DecodedFor(name) ==
  LET cs == SelectSeq(calls, LAMBDA c : c.voice = name /\ IsEvent(c.result))
  IN  [k \in 1..Len(cs) |-> Get(cs[k].result)]

\* C7: the voices of the cell are, in order, the voice names in the order of
\* their first reference; a switch back to an existing voice adds no entry,
\* moves none, and keeps the events the voice already has.
C7_VoiceOrder ==
  /\ VoiceNames = FirstOccurrences(RefSeq(lines, LinesSeen))
  /\ \A k \in 1..Len(voices) : voices[k].events = DecodedFor(voices[k].name)

\* the parse switched away from a voice that has events and back to it
C7_Witness ==
  /\ pc = "done"
  /\ Len(RefSeq(lines, LinesSeen)) = 3
  /\ RefSeq(lines, LinesSeen)[1] = RefSeq(lines, LinesSeen)[3]
  /\ RefSeq(lines, LinesSeen)[1] # RefSeq(lines, LinesSeen)[2]
  /\ Len(voices) = 2
  /\ voices[1].events # <<>>

\* the number of non-blank physical lines at positions 1..i (from 0)
NonBlankAfterFirst(ls, i) == Cardinality({k \in 1..i : ~IsBlank(LineAt(ls, k))})
\* the number of double bars decoded before the i-th call
DoubleBarsBefore(i) == Cardinality({j \in 1..(i - 1) : IsDoubleBar(calls[j].result)})

\* C8: the line_index of an event is the number of non-blank physical lines
\* after the first, up to the line of its token, plus the number of double
\* bars decoded earlier in the call.
C8_LineIndexValue ==
  \A i \in 1..NCalls :
    IsEvent(calls[i].result) =>
      Get(calls[i].result).line_index
        = NonBlankAfterFirst(lines, calls[i].idx) + DoubleBarsBefore(i)

\* an event on the third physical line, after a blank line and a double bar
C8_Witness ==
  \E i \in 1..NCalls :
    /\ IsEvent(calls[i].result)
    /\ calls[i].idx = 2
    /\ IsBlank(LineAt(lines, 1))
    /\ ~IsBlank(LineAt(lines, 0))
    /\ DoubleBarsBefore(i) = 1
    /\ Get(calls[i].result).line_index = 2

\* the default duration in force for the tokens of physical line n (from 0):
\* the value of the last directive line before it whose lower-cased key is
\* default_duration, 1.0 when that value is no number or there is no such line
RECURSIVE ExpectedDefault(_, _)
ExpectedDefault(ls, n) ==
  IF n = 0 THEN Float(1, 0)
  ELSE LET line == LineAt(ls, n - 1)
           parts == SplitMax1(Tail(line))
           value == IF Len(parts) >= 2 THEN parts[2] ELSE <<>>
       IN  IF /\ ~IsBlank(line) /\ StartsWith(line, <<"@">>)
              /\ parts # <<>> /\ Lower(parts[1]) = default_duration_key
           THEN IF IsNone(ParseFloat(value)) THEN Float(1, 0)
                ELSE Get(ParseFloat(value))
           ELSE ExpectedDefault(ls, n - 1)
\* the token states its own duration
HasExplicitDuration(token) ==
  IF token \in {<<"|">>, <<"|", "|">>} THEN FALSE
  ELSE IF token # <<>> /\ Head(token) \in {"_", "."}
       THEN Tail(token) \notin {<<>>, <<":">>}
  ELSE ~IsNone(SplitDuration(SplitOrnaments(SplitLyric(token).note_part).note_part).duration)
\* the event the i-th call left in its voice
StoredEvent(i) ==
  LET v == voices[CHOOSE k \in 1..Len(voices) : voices[k].name = calls[i].voice]
      pos == Cardinality({j \in 1..i : /\ calls[j].voice = calls[i].voice
                                        /\ IsEvent(calls[j].result)})
  IN  v.events[pos]

\* C9: a note, rest or hold token without a duration of its own gets the
\* default duration set by the most recent preceding default_duration
\* directive (key compared in lower case; 1.0 when the value is no number or
\* no directive precedes), and keeps it when later directives change the
\* default.
C9_DefaultDuration ==
  \A i \in 1..NCalls :
    /\ calls[i].default_duration = ExpectedDefault(lines, calls[i].idx)
    /\ (HasDuration(calls[i].result) /\ ~HasExplicitDuration(calls[i].token))
         => /\ Get(calls[i].result).duration = ExpectedDefault(lines, calls[i].idx)
            /\ StoredEvent(i).duration = ExpectedDefault(lines, calls[i].idx)

\* after a directive set the default to 2, a directive with an unparsable
\* value reset it, and a later token without a duration of its own got 1.0
C9_Witness ==
  \E i \in 1..NCalls :
    /\ HasDuration(calls[i].result) /\ ~HasExplicitDuration(calls[i].token)
    /\ calls[i].idx = 2
    /\ lines[1] = LineSetDuration2
    /\ lines[2] = LineSetDurationBad
    /\ StoredEvent(i).duration = Float(1, 0)

EventsOf(vs, name) ==
  IF \E k \in 1..Len(vs) : vs[k].name = name
  THEN vs[CHOOSE k \in 1..Len(vs) : vs[k].name = name].events
  ELSE <<>>
NamesOf(vs) == {vs[k].name : k \in 1..Len(vs)}
Last(s) == s[Len(s)]

\* C10: a step that decodes a token appends its event, if it has one, at the
\* end of the event list of the active voice (the voice of the most recent
\* #voice line, "default" without one) and changes no other list; every other
\* step changes no list; no voice is ever removed.
C10_AppendOnlyActiveVoice ==
  [][ /\ NamesOf(voices) \subseteq NamesOf(voices')
      /\ IF calls' # calls
         THEN LET c == Last(calls')
              IN  /\ calls' = Append(calls, c)
                  /\ c.voice = Last(RefSeq(lines, idx + 1))
                  /\ NamesOf(voices') = NamesOf(voices)
                  /\ EventsOf(voices', c.voice)
                       = IF IsEvent(c.result)
                         THEN Append(EventsOf(voices, c.voice), Get(c.result))
                         ELSE EventsOf(voices, c.voice)
                  /\ \A name \in NamesOf(voices) \ {c.voice} :
                       EventsOf(voices', name) = EventsOf(voices, name)
         ELSE \A name \in NamesOf(voices') :
                EventsOf(voices', name) = EventsOf(voices, name)
    ]_vars

\* two voices hold events, the second of them more than one
C10_Witness ==
  /\ pc = "done"
  /\ Len(voices) = 2
  /\ voices[1].events # <<>>
  /\ Len(voices[2].events) >= 2

\* the position of the first '#' of the line that no backslash precedes, 0
\* when there is none
FirstUnescapedHash(line) ==
  MinPos({i \in 1..Len(line) : line[i] = "#" /\ ~(i > 1 /\ line[i - 1] = "\\")})
\* the whitespace-separated tokens of the text before the first unescaped '#'
TokensBeforeComment(line) ==
  IF FirstUnescapedHash(line) = 0 THEN Split(line)
  ELSE Split(Before(line, FirstUnescapedHash(line)))
\* physical line k (from 0) is a note line
IsNoteLine(line) ==
  ~IsBlank(line) /\ ~StartsWith(line, <<"@">>) /\ ~IsVoiceLine(line)
\* the tokens decoded from physical line k, in order
TokensDecodedAt(k) ==
  LET cs == SelectSeq(calls, LAMBDA c : c.idx = k)
  IN  [i \in 1..Len(cs) |-> cs[i].token]

\* C11 (as claimed): the tokens decoded from a note line are exactly the
\* whitespace-separated tokens of its text before the first unescaped '#';
\* nothing at or after that '#' is decoded, and an escaped '#' starts no
\* comment and stays in its token.
C11_CommentStripped ==
  \A k \in 0..(idx - 1) :
    IsNoteLine(LineAt(lines, k))
      => TokensDecodedAt(k) = TokensBeforeComment(LineAt(lines, k))

====
